---- MODULE Spec2Model ----
(***************************************************************************)
(* The capture-the-flag server of Source/server.py: the world model        *)
(* (players, flags, scores), the accept thread, one listener thread per    *)
(* connection, the fixed-rate game loop and the contested-action handlers  *)
(* attempt_pickup / attempt_steal, with remove_player as an entry point.   *)
(*                                                                         *)
(* Positions are the integers the code computes (spawns are integers and   *)
(* every step is 6.0, so every coordinate is an integer-valued float).     *)
(* The probability draw random.random() is kept in hundredths.             *)
(***************************************************************************)
EXTENDS Integers, Sequences, FiniteSets, TLC

\* ------------------------------------------------------------ constants
SCORE_TO_WIN == 5
PICKUP_RADIUS == 30
STEAL_CHANCE == 35
BASE_RADIUS == 50
MAP_WIDTH == 1000
MAP_HEIGHT == 600
speed == 6
None == 0

\* ------------------------------------------------------------ bounds
\* accept stops handing out identifiers after MaxPlayers
MaxPlayers == 3
\* messages the listeners put on the intent queues over a run
MaxIntents == 1
\* players remove_player takes out of the world over a run
MaxRemoved == 1
\* movement intents the listeners queue over a run of the movement scenario
MaxMoves == 2

Teams == {"red", "blue"}
FlagOrder == <<"red", "blue">>
Pids == 1..MaxPlayers

\* ------------------------------------------------------------ helpers
TeamOfRed(pid) == "red"

TeamOf(pid) == IF pid % 2 = 1 THEN "red" ELSE "blue"

SpawnX(team) == IF team = "red" THEN 120 ELSE MAP_WIDTH - 120

SpawnY(pid) == 100 + ((pid * 37) % (MAP_HEIGHT - 200))

NewPlayer(pid) ==
    [blue |-> FALSE, pid |-> pid, red |-> FALSE, team |-> TeamOf(pid),
     x |-> SpawnX(TeamOf(pid)), y |-> SpawnY(pid)]

FlagSpawn(team) ==
    IF team = "red" THEN [x |-> 50, y |-> MAP_HEIGHT \div 2]
    ELSE [x |-> MAP_WIDTH - 50, y |-> MAP_HEIGHT \div 2]

NewFlag(team) ==
    [carrier |-> None, team |-> team,
     x |-> FlagSpawn(team).x, y |-> FlagSpawn(team).y]

Dist2(ax, ay, bx, by) == (ax - bx) * (ax - bx) + (ay - by) * (ay - by)

Max(a, b) == IF a >= b THEN a ELSE b
Min(a, b) == IF a <= b THEN a ELSE b

Indicator(p, f) == IF f = "red" THEN p.red ELSE p.blue

Opposing(team) == IF team = "red" THEN "blue" ELSE "red"

\* ------------------------------------------------------------ state
VARIABLES
    player,          \* the Player objects ever created, by pid (x, y, team, red, blue)
    players,         \* keys of game.players
    flags,           \* game.flags: team -> [team, x, y, carrier]
    scores,          \* game.scores
    next_player_id,
    client_sockets,  \* keys of client_sockets
    input_queues,    \* pid -> queue of messages, for the keys of input_queues
    client_threads,  \* keys of client_threads
    running,
    tick,            \* where game_loop is in its iteration
    listener,        \* where each client_listener thread is
    acceptor,        \* where the accept thread is
    over_sent,       \* winners named by the 'over' broadcasts so far
    intents,         \* messages put on intent queues so far
    dropped,         \* <<pid, flag>>: carried by pid when it was removed, no snapshot since
    lock,            \* flag.lock_obj: the pid of the listener holding it, or None
    larg,            \* each listener's message being handled
    remover,         \* the thread running remove_player: [pc, pid, had]
    send_failed,     \* pids whose sendall raised during the last broadcast
    struct_lock,     \* self.struct_lock: "free" or the thread holding it
    first_sent,      \* type of the first message sent on each connection
    items            \* the sockets listed by the broadcast in progress

world_vars == <<player, players, flags, scores>>
conn_vars == <<next_player_id, client_sockets, input_queues, client_threads>>
loop_vars == <<running, tick, over_sent>>
thread_vars == <<listener, acceptor>>
fine_vars == <<lock, larg, remover>>
sync_vars == <<struct_lock, first_sent, items>>
vars == <<world_vars, conn_vars, loop_vars, thread_vars, intents, dropped, fine_vars,
          send_failed, sync_vars>>

NoArg == [flag |-> "red", target |-> None]

StructFreeAlways == TRUE

\* `with self.struct_lock:` can be entered
StructFree == struct_lock = "free"

\* send_json of a message of the kind `sent` to the sockets of `to`
FirstSend(fs, to, sent) ==
    [pid \in DOMAIN fs |-> IF pid \in to /\ fs[pid] = "none" THEN sent ELSE fs[pid]]
IdleRemover == [had |-> FALSE, pc |-> "idle", pid |-> None]

\* ------------------------------------------------------------ attempt_pickup
InPickupRangeStrict(p, f) ==
    Dist2(p.x, p.y, f.x, f.y) < PICKUP_RADIUS * PICKUP_RADIUS

InPickupRange(p, f) ==
    Dist2(p.x, p.y, f.x, f.y) <= PICKUP_RADIUS * PICKUP_RADIUS

SkipsFlag(p, f) == f.team = p.team

\* one iteration of the loop over the flags, with the flag's lock held
PickupFlag(w, pid, f) ==
    IF SkipsFlag(w.player[pid], w.flags[f]) THEN w
    ELSE IF w.flags[f].carrier # None THEN w
    ELSE IF InPickupRange(w.player[pid], w.flags[f])
         THEN [flags |-> [w.flags EXCEPT ![f].carrier = pid],
               player |-> [w.player EXCEPT ![pid].red = (f = "red"),
                                           ![pid].blue = (f # "red")]]
         ELSE w

attempt_pickup(pl, keys, fl, pid) ==
    IF pid \notin keys THEN [flags |-> fl, player |-> pl]
    ELSE PickupFlag(PickupFlag([flags |-> fl, player |-> pl], pid, FlagOrder[1]),
                    pid, FlagOrder[2])

\* ------------------------------------------------------------ attempt_steal
StealAllowedAnyDraw(pl, keys, attacker, defender, flag_team, draw) ==
    /\ attacker \in keys
    /\ defender \in keys
    /\ Indicator(pl[defender], flag_team)
    /\ pl[attacker].team # pl[defender].team

StealAllowedStale(pl, keys, attacker, defender, flag_team, draw) ==
    /\ attacker \in keys
    /\ defender \in DOMAIN pl
    /\ Indicator(pl[defender], flag_team)
    /\ pl[attacker].team # pl[defender].team
    /\ ~(draw >= STEAL_CHANCE)

StealAllowed(pl, keys, attacker, defender, flag_team, draw) ==
    /\ attacker \in keys
    /\ defender \in keys
    /\ Indicator(pl[defender], flag_team)
    /\ pl[attacker].team # pl[defender].team
    /\ ~(draw >= STEAL_CHANCE)

attempt_steal_keeps_defender(pl, keys, fl, attacker, defender, flag_team, draw) ==
    IF flag_team \notin DOMAIN fl THEN [flags |-> fl, player |-> pl]
    ELSE IF ~StealAllowed(pl, keys, attacker, defender, flag_team, draw)
         THEN [flags |-> fl, player |-> pl]
    ELSE [flags |-> [fl EXCEPT ![flag_team].carrier = pl[attacker].pid,
                               ![flag_team].x = pl[attacker].x,
                               ![flag_team].y = pl[attacker].y],
          player |-> [pl EXCEPT ![attacker].red = (flag_team = "red"),
                                ![attacker].blue = (flag_team = "blue")]]

attempt_steal(pl, keys, fl, attacker, defender, flag_team, draw) ==
    IF flag_team \notin DOMAIN fl THEN [flags |-> fl, player |-> pl]
    ELSE IF ~StealAllowed(pl, keys, attacker, defender, flag_team, draw)
         THEN [flags |-> fl, player |-> pl]
    ELSE [flags |-> [fl EXCEPT ![flag_team].carrier = pl[attacker].pid,
                               ![flag_team].x = pl[attacker].x,
                               ![flag_team].y = pl[attacker].y],
          player |-> [pl EXCEPT ![defender].red = FALSE,
                                ![defender].blue = FALSE,
                                ![attacker].red = (flag_team = "red"),
                                ![attacker].blue = (flag_team = "blue")]]

\* ------------------------------------------------------------ handle_inputs
Pressed(move, k) == k \in move

ClampAbove(v, hi) == Min(hi, v)

\* max(0, min(map_width, player.x))
Clamp(v, hi) == Max(0, Min(hi, v))

handle_inputs_up_wins(p, message) ==
    IF message.type # "input" THEN p
    ELSE LET UP == Pressed(message.move, "up")
             DOWN == Pressed(message.move, "down")
             LEFT == Pressed(message.move, "left")
             RIGHT == Pressed(message.move, "right")
             y1 == IF UP THEN p.y - speed ELSE p.y
             y2 == IF DOWN /\ ~UP THEN y1 + speed ELSE y1
             x1 == IF LEFT /\ ~RIGHT THEN p.x - speed ELSE p.x
             x2 == IF RIGHT /\ ~LEFT THEN x1 + speed ELSE x1
         IN [p EXCEPT !.x = Clamp(x2, MAP_WIDTH), !.y = Clamp(y2, MAP_HEIGHT)]

handle_inputs(p, message) ==
    IF message.type # "input" THEN p
    ELSE LET UP == Pressed(message.move, "up")
             DOWN == Pressed(message.move, "down")
             LEFT == Pressed(message.move, "left")
             RIGHT == Pressed(message.move, "right")
             y1 == IF UP /\ ~DOWN THEN p.y - speed ELSE p.y
             y2 == IF DOWN /\ ~UP THEN y1 + speed ELSE y1
             x1 == IF LEFT /\ ~RIGHT THEN p.x - speed ELSE p.x
             x2 == IF RIGHT /\ ~LEFT THEN x1 + speed ELSE x1
         IN [p EXCEPT !.x = Clamp(x2, MAP_WIDTH), !.y = Clamp(y2, MAP_HEIGHT)]

\* the inner loop of process_inputs: every queued message, in order
RECURSIVE Drain(_, _)
Drain(p, q) ==
    IF q = <<>> THEN p ELSE Drain(handle_inputs(p, Head(q)), Tail(q))

process_inputs(pl, keys, queues) ==
    [pid \in DOMAIN pl |->
        IF pid \in DOMAIN queues /\ pid \in keys
        THEN Drain(pl[pid], queues[pid]) ELSE pl[pid]]

\* ------------------------------------------------------------ update_flags
update_flags(pl, keys, fl) ==
    [f \in DOMAIN fl |->
        IF fl[f].carrier = None THEN fl[f]
        ELSE IF fl[f].carrier \notin keys
             THEN [fl[f] EXCEPT !.carrier = None,
                                !.x = FlagSpawn(f).x, !.y = FlagSpawn(f).y]
             ELSE [fl[f] EXCEPT !.x = pl[fl[f].carrier].x,
                                !.y = pl[fl[f].carrier].y]]

\* ------------------------------------------------------------ check_score
carried_flags(p) == {f \in Teams : Indicator(p, f) /\ p.team # f}

InBase(p) ==
    Dist2(p.x, p.y, FlagSpawn(p.team).x, FlagSpawn(p.team).y)
        <= BASE_RADIUS * BASE_RADIUS

Scorers(pl, keys) ==
    {pid \in keys : carried_flags(pl[pid]) # {} /\ InBase(pl[pid])}

\* game.players is iterated in insertion order, which is the order of the pids
FirstScorer(pl, keys) ==
    CHOOSE pid \in Scorers(pl, keys) : \A q \in Scorers(pl, keys) : pid <= q

ScoreGainDouble(p) == 2 * Cardinality(carried_flags(p))

ScoreGain(p) == Cardinality(carried_flags(p))

ResetFlagsCarrierOnly(fl) == [f \in DOMAIN fl |-> [fl[f] EXCEPT !.carrier = None]]

ResetFlags(fl) == [f \in DOMAIN fl |-> NewFlag(f)]

ResetPlayers(pl, keys) ==
    [pid \in DOMAIN pl |->
        IF pid \in keys THEN [pl[pid] EXCEPT !.red = FALSE, !.blue = FALSE]
        ELSE pl[pid]]

WinsStrict(sc, team) == sc[team] > SCORE_TO_WIN

Wins(sc, team) == sc[team] >= SCORE_TO_WIN

\* ------------------------------------------------------------ serialize
serialize(pl, keys, fl, sc) ==
    [flags |-> [f \in DOMAIN fl |->
                    [carrier |-> fl[f].carrier, team |-> fl[f].team,
                     x |-> fl[f].x, y |-> fl[f].y]],
     players |-> [pid \in keys |->
                    [blue |-> pl[pid].blue, pid |-> pid, red |-> pl[pid].red,
                     team |-> pl[pid].team, x |-> pl[pid].x, y |-> pl[pid].y]],
     scores |-> sc]

\* ------------------------------------------------------------ initial states
\* A position a player reaches from its spawn by movement intents alone
\* (steps of `speed` on each axis, before any clamping).
Walkable(pid, pos) ==
    /\ (pos.x - SpawnX(TeamOf(pid))) % speed = 0
    /\ (pos.y - SpawnY(pid)) % speed = 0
    /\ pos.x \in 0..MAP_WIDTH
    /\ pos.y \in 0..MAP_HEIGHT

\* Where the three connected players stand when the model starts: player 1
\* (red) in or just out of pickup range of the blue flag, player 2 (blue) by
\* the red flag, player 3 (red) in the red base.
StartPositions ==
    [pid \in 1..3 |->
        CASE pid = 1 -> {[x |-> 948, y |-> 299], [x |-> 978, y |-> 311]}
          [] pid = 2 -> {[x |-> 52, y |-> 300]}
          [] pid = 3 -> {[x |-> 48, y |-> 301]}]

Connected == DOMAIN StartPositions

\* The server with the players of `place` connected and standing there, and
\* flag f picked up by carry[f] (None: at its spawn) and moved with it, the
\* scores standing at sc.
InitScored(place, carry, sc) ==
    /\ player = [pid \in Pids |->
                    IF pid \in DOMAIN place
                    THEN [NewPlayer(pid) EXCEPT !.x = place[pid].x, !.y = place[pid].y,
                                                !.red = (carry["red"] = pid),
                                                !.blue = (carry["blue"] = pid)]
                    ELSE NewPlayer(pid)]
    /\ players = DOMAIN place
    /\ flags = [f \in Teams |->
                   IF carry[f] = None THEN NewFlag(f)
                   ELSE [NewFlag(f) EXCEPT !.carrier = carry[f],
                                           !.x = place[carry[f]].x,
                                           !.y = place[carry[f]].y]]
    /\ scores = sc
    /\ next_player_id = Cardinality(DOMAIN place) + 1
    /\ client_sockets = DOMAIN place
    /\ input_queues = [pid \in DOMAIN place |-> <<>>]
    /\ client_threads = DOMAIN place
    /\ running = TRUE
    /\ tick = "process_inputs"
    /\ listener = [pid \in Pids |-> IF pid \in DOMAIN place THEN "recv" ELSE "none"]
    /\ acceptor = "accept"
    /\ over_sent = <<>>
    /\ intents = 0
    /\ dropped = {}
    /\ lock = [f \in Teams |-> None]
    /\ larg = [pid \in Pids |-> NoArg]
    /\ remover = IdleRemover
    /\ send_failed = {}
    /\ struct_lock = "free"
    /\ first_sent = [pid \in Pids |-> IF pid \in DOMAIN place THEN "connect" ELSE "none"]
    /\ items = {}

InitCarrying(place, carry) == InitScored(place, carry, [t \in Teams |-> 0])

InitWith(place) == InitCarrying(place, [f \in Teams |-> None])

\* the server right after construction
InitEmpty == InitWith(<<>>)

\* the server in mid-game, nothing carried yet
InitMidGame ==
    \E place \in [Connected -> UNION {StartPositions[pid] : pid \in Connected}] :
        /\ \A pid \in Connected :
              place[pid] \in StartPositions[pid] /\ Walkable(pid, place[pid])
        /\ InitWith(place)

Init == InitEmpty \/ InitMidGame

\* ------------------------------------------------------------ accept thread
\* `while self.running` is tested after each pass; the thread blocks in
\* listener.accept() meanwhile.
LoopTest(run) == IF run THEN "recv" ELSE "exited"

\* the body of `with self.struct_lock:` up to th.start()
Register(pid) ==
    /\ next_player_id' = next_player_id + 1
    /\ player' = [player EXCEPT ![pid] = NewPlayer(pid)]
    /\ players' = players \cup {pid}
    /\ client_sockets' = client_sockets \cup {pid}
    /\ input_queues' = [q \in DOMAIN input_queues \cup {pid} |->
                           IF q = pid THEN <<>> ELSE input_queues[q]]
    /\ client_threads' = client_threads \cup {pid}
    /\ listener' = [listener EXCEPT ![pid] = "recv"]

Accept ==
    /\ acceptor = "accept"
    /\ next_player_id <= MaxPlayers
    /\ StructFree
    /\ Register(next_player_id)
    /\ first_sent' = FirstSend(first_sent, {next_player_id}, "connect")
    /\ acceptor' = IF running THEN "accept" ELSE "exited"
    /\ UNCHANGED <<flags, scores, loop_vars, intents, dropped, fine_vars, send_failed,
                   struct_lock, items>>

\* ------------------------------------------------------------ client_listener
\* One message read and handled; the handler runs to completion.
RecvPickup(pid) ==
    /\ listener[pid] = "recv"
    /\ LET w == attempt_pickup(player, players, flags, pid) IN
        /\ player' = w.player
        /\ flags' = w.flags
    /\ listener' = [listener EXCEPT ![pid] = LoopTest(running)]
    /\ UNCHANGED <<players, scores, conn_vars, loop_vars, acceptor, intents,
                   dropped, fine_vars, send_failed, sync_vars>>

RecvSteal(pid, target, flag_team, draw) ==
    /\ listener[pid] = "recv"
    /\ LET w == attempt_steal(player, players, flags, pid, target, flag_team, draw) IN
        /\ player' = w.player
        /\ flags' = w.flags
    /\ listener' = [listener EXCEPT ![pid] = LoopTest(running)]
    /\ UNCHANGED <<players, scores, conn_vars, loop_vars, acceptor, intents,
                   dropped, fine_vars, send_failed, sync_vars>>

\* q.put(msg): q is the queue the thread was started with
Put(queues, pid, msg) ==
    IF pid \in DOMAIN queues
    THEN [queues EXCEPT ![pid] = Append(queues[pid], msg)]
    ELSE queues

Enqueue(pid, msg, budget) ==
    /\ listener[pid] = "recv"
    /\ intents < budget
    /\ intents' = intents + 1
    /\ input_queues' = Put(input_queues, pid, msg)
    /\ listener' = [listener EXCEPT ![pid] = LoopTest(running)]
    /\ UNCHANGED <<world_vars, next_player_id, client_sockets, client_threads,
                   loop_vars, acceptor, dropped, fine_vars, send_failed,
                   sync_vars>>

RecvQueued(pid, msg) == Enqueue(pid, msg, MaxIntents)

\* recv raises or returns no data: the notice is queued and the loop is left
RecvFailed(pid) ==
    /\ listener[pid] = "recv"
    /\ intents < MaxIntents
    /\ intents' = intents + 1
    /\ input_queues' = Put(input_queues, pid, [move |-> {}, type |-> "disconnect"])
    /\ listener' = [listener EXCEPT ![pid] = "exited"]
    /\ UNCHANGED <<world_vars, next_player_id, client_sockets, client_threads,
                   loop_vars, acceptor, dropped, fine_vars, send_failed,
                   sync_vars>>

\* json.loads(line) raises on a line that is not JSON (msg.get raises on JSON
\* that is not an object): the exception leaves the while loop, the handler
\* of the outer try queues the notice and the thread ends
RecvMalformed(pid) ==
    /\ listener[pid] = "recv"
    /\ intents < MaxIntents
    /\ intents' = intents + 1
    /\ input_queues' = Put(input_queues, pid, [move |-> {}, type |-> "disconnect"])
    /\ listener' = [listener EXCEPT ![pid] = "crashed"]
    /\ UNCHANGED <<world_vars, next_player_id, client_sockets, client_threads,
                   loop_vars, acceptor, dropped, fine_vars, send_failed,
                   sync_vars>>

\* ------------------------------------------------------------ game_loop
ProcessInputs ==
    /\ tick = "process_inputs"
    /\ StructFree
    /\ player' = process_inputs(player, players, input_queues)
    /\ input_queues' = [pid \in DOMAIN input_queues |-> <<>>]
    /\ tick' = "update_flags"
    /\ UNCHANGED <<players, flags, scores, next_player_id, client_sockets,
                   client_threads, running, over_sent, thread_vars,
                   intents, dropped, fine_vars, send_failed, sync_vars>>

UpdateFlags ==
    /\ tick = "update_flags"
    /\ flags' = update_flags(player, players, flags)
    /\ tick' = "check_score"
    /\ UNCHANGED <<player, players, scores, conn_vars, running, over_sent,
                   thread_vars, intents, dropped, fine_vars, send_failed,
                   sync_vars>>

CheckScore ==
    /\ tick = "check_score"
    /\ tick' = "serialize"
    /\ IF Scorers(player, players) = {}
       THEN UNCHANGED <<player, flags, scores, running, over_sent, first_sent>>
       ELSE LET p == player[FirstScorer(player, players)]
                sc == [scores EXCEPT ![p.team] = @ + ScoreGain(p)]
            IN /\ Wins(sc, p.team) => StructFree
               /\ scores' = sc
               /\ flags' = ResetFlags(flags)
               /\ player' = ResetPlayers(player, players)
               /\ over_sent' = IF Wins(sc, p.team)
                               THEN Append(over_sent, p.team) ELSE over_sent
               /\ first_sent' = IF Wins(sc, p.team)
                                THEN FirstSend(first_sent, client_sockets, "over")
                                ELSE first_sent
               /\ running' = IF Wins(sc, p.team) THEN FALSE ELSE running
    /\ UNCHANGED <<players, conn_vars, thread_vars, intents, dropped,
                   fine_vars, send_failed, struct_lock, items>>

\* the snapshot serialize() returns in the current state
world == serialize(player, players, flags, scores)

\* world = serialize(); broadcast(world); the sleep; `while self.running`.
\* broadcast sends to every socket registered when it starts; sendall raises
\* for the sockets in `failing`, and send_json catches that and prints it, so
\* the except of broadcast (its call of remove_player) is never entered.
BroadcastWorld(failing) ==
    /\ tick = "serialize"
    /\ StructFree
    /\ failing \subseteq client_sockets
    /\ send_failed' = failing
    /\ first_sent' = FirstSend(first_sent, client_sockets \ failing, "update")
    /\ dropped' = {}
    /\ tick' = IF running THEN "process_inputs" ELSE "stopped"
    /\ UNCHANGED <<world_vars, conn_vars, running, over_sent, thread_vars,
                   intents, fine_vars, struct_lock, items>>

\* a broadcast in which every send succeeds
SerializeBroadcast == BroadcastWorld({})

\* ------------------------------------------------------------ remove_player
ReleaseFlag(fl, f) ==
    [fl EXCEPT ![f].carrier = None, ![f].x = FlagSpawn(f).x, ![f].y = FlagSpawn(f).y]

ReleaseCarried(fl, p) ==
    LET afterRed == IF p.red THEN ReleaseFlag(fl, "red") ELSE fl
    IN IF p.blue THEN ReleaseFlag(afterRed, "blue") ELSE afterRed

WithoutNothing(queues, pid) == queues

Without(queues, pid) == [q \in DOMAIN queues \ {pid} |-> queues[q]]

Removed == (next_player_id - 1) - Cardinality(players)

RemovePlayer(pid) ==
    /\ remover.pc = "idle"
    /\ StructFree
    /\ pid \in players => Removed < MaxRemoved
    /\ players' = players \ {pid}
    /\ client_sockets' = client_sockets \ {pid}
    /\ input_queues' = Without(input_queues, pid)
    /\ client_threads' = client_threads \ {pid}
    /\ flags' = IF pid \in players THEN ReleaseCarried(flags, player[pid]) ELSE flags
    /\ dropped' = IF pid \in players
                  THEN dropped \cup {<<pid, f>> : f \in {g \in Teams : flags[g].carrier = pid}}
                  ELSE dropped
    /\ UNCHANGED <<player, scores, next_player_id, loop_vars, thread_vars,
                   intents, fine_vars, send_failed, sync_vars>>

\* ------------------------------------------------------------ inputs
Moves == {{"left"}, {"up", "down"}}
Messages == {[move |-> m, type |-> "input"] : m \in Moves}
                \cup {[move |-> {}, type |-> "disconnect"]}
\* steal messages: every known target and flag, an absent target, an unknown flag
StealRequests ==
    {[flag |-> f, target |-> t] : t \in Pids, f \in Teams}
        \cup {[flag |-> "red", target |-> None], [flag |-> "green", target |-> 1]}
Draws == {STEAL_CHANCE - 1, STEAL_CHANCE}

Next ==
    \/ Accept
    \/ \E pid \in Pids : RecvPickup(pid)
    \/ \E pid \in Pids, req \in StealRequests, draw \in Draws :
          RecvSteal(pid, req.target, req.flag, draw)
    \/ \E pid \in Pids, msg \in Messages : RecvQueued(pid, msg)
    \/ \E pid \in Pids : RecvFailed(pid)
    \/ \E pid \in Pids : RecvMalformed(pid)
    \/ ProcessInputs
    \/ UpdateFlags
    \/ CheckScore
    \/ SerializeBroadcast
    \/ \E pid \in Pids : RemovePlayer(pid)

Spec == Init /\ [][Next]_vars

\* ------------------------------------------------------------ attempt_pickup on any position
\* The world as a test of attempt_pickup sets it up: the players stand at
\* chosen offsets from the flag they may take, the boundary of the pickup
\* radius among them (no walk from a spawn ends exactly on that boundary).
PickupOffsets ==
    {<<0, 0>>, <<30, 0>>, <<0, -30>>, <<18, 24>>, <<-24, 18>>,
     <<31, 0>>, <<-18, -25>>, <<29, 7>>}

PickupPlaces(pid) ==
    {[x |-> FlagSpawn(Opposing(TeamOf(pid))).x + o[1],
      y |-> FlagSpawn(Opposing(TeamOf(pid))).y + o[2]] : o \in PickupOffsets}

InitPickup ==
    \E place \in [Connected -> UNION {PickupPlaces(pid) : pid \in Connected}] :
        /\ \A pid \in Connected : place[pid] \in PickupPlaces(pid)
        /\ place[2] \in {[x |-> 50, y |-> 270], [x |-> 81, y |-> 300]}
        /\ place[3] \in {[x |-> 968, y |-> 324], [x |-> 932, y |-> 275]}
        /\ InitWith(place)

NextPickup ==
    \/ \E pid \in Pids : RecvPickup(pid)
    \/ ProcessInputs
    \/ UpdateFlags
    \/ CheckScore
    \/ SerializeBroadcast
    \/ \E pid \in Pids : RemovePlayer(pid)

SpecPickup == InitPickup /\ [][NextPickup]_vars

\* ------------------------------------------------------------ the handlers, statement by statement
\* attempt_pickup, attempt_steal and remove_player as the threads run them:
\* one step per lock operation, test or write, so that listeners, the game
\* loop and remove_player interleave inside the handlers.
LockFreeAlways(f) == TRUE

LockFree(f) == lock[f] = None

ReleaseNothing(f) == lock

Release(f) == [lock EXCEPT ![f] = None]

Wanted(pid) == Opposing(TeamOf(pid))

\* player = self.game.players.get(pid); the loop skips the player's own flag
PkStart(pid) ==
    /\ listener[pid] = "recv"
    /\ listener' = [listener EXCEPT ![pid] =
                       IF pid \in players THEN "pk_lock" ELSE LoopTest(running)]
    /\ UNCHANGED <<world_vars, conn_vars, loop_vars, acceptor, intents, dropped,
                   fine_vars, send_failed, sync_vars>>

\* with flag.lock_obj: if flag.carrier is not None: continue; the radius
\* test.  Taking the lock and the tests under it are one step: until its
\* first write the holder has done nothing another thread can see.
PkEnter(pid) ==
    /\ listener[pid] = "pk_lock"
    /\ LockFree(Wanted(pid))
    /\ IF flags[Wanted(pid)].carrier = None
          /\ InPickupRange(player[pid], flags[Wanted(pid)])
       THEN /\ listener' = [listener EXCEPT ![pid] = "pk_clear"]
            /\ lock' = [lock EXCEPT ![Wanted(pid)] = pid]
       ELSE /\ listener' = [listener EXCEPT ![pid] = LoopTest(running)]
            /\ lock' = lock
    /\ UNCHANGED <<world_vars, conn_vars, loop_vars, acceptor, intents, dropped,
                   larg, remover, send_failed, sync_vars>>

\* player.red = False; player.blue = False
PkClear(pid) ==
    /\ listener[pid] = "pk_clear"
    /\ player' = [player EXCEPT ![pid].red = FALSE, ![pid].blue = FALSE]
    /\ listener' = [listener EXCEPT ![pid] = "pk_carrier"]
    /\ UNCHANGED <<players, flags, scores, conn_vars, loop_vars, acceptor,
                   intents, dropped, fine_vars, send_failed, sync_vars>>

\* flag.carrier = pid
PkCarrier(pid) ==
    /\ listener[pid] = "pk_carrier"
    /\ flags' = [flags EXCEPT ![Wanted(pid)].carrier = pid]
    /\ listener' = [listener EXCEPT ![pid] = "pk_ind"]
    /\ UNCHANGED <<player, players, scores, conn_vars, loop_vars, acceptor,
                   intents, dropped, fine_vars, send_failed, sync_vars>>

\* player.red = True or player.blue = True; the lock is released
PkInd(pid) ==
    /\ listener[pid] = "pk_ind"
    /\ player' = [player EXCEPT ![pid].red = (Wanted(pid) = "red") \/ @,
                                ![pid].blue = (Wanted(pid) = "blue") \/ @]
    /\ lock' = Release(Wanted(pid))
    /\ listener' = [listener EXCEPT ![pid] = LoopTest(running)]
    /\ UNCHANGED <<players, flags, scores, conn_vars, loop_vars, acceptor,
                   intents, dropped, larg, remover, send_failed,
                   sync_vars>>

\* flag = self.game.flags.get(flag_team); with flag.lock_obj: the lookups of
\* attacker and defender, the three tests, random.random() among them
StEnter(pid, req, draw) ==
    /\ listener[pid] = "recv"
    /\ req.flag \in DOMAIN flags => LockFree(req.flag)
    /\ IF req.flag \in DOMAIN flags
          /\ StealAllowed(player, players, pid, req.target, req.flag, draw)
       THEN /\ listener' = [listener EXCEPT ![pid] = "st_defender"]
            /\ lock' = [lock EXCEPT ![req.flag] = pid]
            /\ larg' = [larg EXCEPT ![pid] = req]
       ELSE /\ listener' = [listener EXCEPT ![pid] = LoopTest(running)]
            /\ UNCHANGED <<lock, larg>>
    /\ UNCHANGED <<world_vars, conn_vars, loop_vars, acceptor, intents, dropped,
                   remover, send_failed, sync_vars>>

\* defender.red = False; defender.blue = False
StDefender(pid) ==
    /\ listener[pid] = "st_defender"
    /\ player' = [player EXCEPT ![larg[pid].target].red = FALSE,
                                ![larg[pid].target].blue = FALSE]
    /\ listener' = [listener EXCEPT ![pid] = "st_attacker"]
    /\ UNCHANGED <<players, flags, scores, conn_vars, loop_vars, acceptor,
                   intents, dropped, fine_vars, send_failed, sync_vars>>

\* attacker.red = flag_team == "red"; attacker.blue = flag_team == "blue"
StAttacker(pid) ==
    /\ listener[pid] = "st_attacker"
    /\ player' = [player EXCEPT ![pid].red = (larg[pid].flag = "red"),
                                ![pid].blue = (larg[pid].flag = "blue")]
    /\ listener' = [listener EXCEPT ![pid] = "st_carrier"]
    /\ UNCHANGED <<players, flags, scores, conn_vars, loop_vars, acceptor,
                   intents, dropped, fine_vars, send_failed, sync_vars>>

\* flag.carrier = attacker.pid; flag.x, flag.y = attacker's; the lock is released
StCarrier(pid) ==
    /\ listener[pid] = "st_carrier"
    /\ flags' = [flags EXCEPT ![larg[pid].flag].carrier = pid,
                              ![larg[pid].flag].x = player[pid].x,
                              ![larg[pid].flag].y = player[pid].y]
    /\ lock' = Release(larg[pid].flag)
    /\ larg' = [larg EXCEPT ![pid] = NoArg]
    /\ listener' = [listener EXCEPT ![pid] = LoopTest(running)]
    /\ UNCHANGED <<player, players, scores, conn_vars, loop_vars, acceptor,
                   intents, dropped, remover, send_failed, sync_vars>>

\* with self.struct_lock: the four pops (and the socket's close)
RmPop(pid) ==
    /\ remover.pc = "idle"
    /\ StructFree
    /\ pid \in players => Removed < MaxRemoved
    /\ players' = players \ {pid}
    /\ client_sockets' = client_sockets \ {pid}
    /\ input_queues' = Without(input_queues, pid)
    /\ client_threads' = client_threads \ {pid}
    /\ remover' = IF pid \in players
                  THEN [had |-> TRUE, pc |-> "test_red", pid |-> pid]
                  ELSE IdleRemover
    /\ UNCHANGED <<player, flags, scores, next_player_id, loop_vars, thread_vars,
                   intents, dropped, lock, larg, send_failed,
                   sync_vars>>

\* if player.red: / if player.blue:
RmTest(f) ==
    /\ remover.pc = IF f = "red" THEN "test_red" ELSE "test_blue"
    /\ remover' =
          IF Indicator(player[remover.pid], f)
          THEN [remover EXCEPT !.pc = IF f = "red" THEN "reset_red" ELSE "reset_blue"]
          ELSE IF f = "red" THEN [remover EXCEPT !.pc = "test_blue"] ELSE IdleRemover
    /\ UNCHANGED <<world_vars, conn_vars, loop_vars, thread_vars, intents, dropped,
                   lock, larg, send_failed, sync_vars>>

\* f.carrier = None; f.x = f.spawn_x; f.y = f.spawn_y
RmReset(f) ==
    /\ remover.pc = IF f = "red" THEN "reset_red" ELSE "reset_blue"
    /\ flags' = ReleaseFlag(flags, f)
    /\ remover' = IF f = "red" THEN [remover EXCEPT !.pc = "test_blue"] ELSE IdleRemover
    /\ UNCHANGED <<player, players, scores, conn_vars, loop_vars, thread_vars,
                   intents, dropped, lock, larg, send_failed,
                   sync_vars>>

\* Players 1 and 3 (red) both in pickup range of the blue flag, player 2
\* (blue) in range of the red flag.
ConcPositions ==
    [pid \in 1..3 |->
        CASE pid = 1 -> [x |-> 948, y |-> 299]
          [] pid = 2 -> [x |-> 52, y |-> 300]
          [] pid = 3 -> [x |-> 954, y |-> 301]]

InitConc ==
    /\ \A pid \in DOMAIN ConcPositions : Walkable(pid, ConcPositions[pid])
    /\ InitWith(ConcPositions)

NextConc ==
    \/ \E pid \in Pids : PkStart(pid)
    \/ \E pid \in Pids : PkEnter(pid)
    \/ \E pid \in Pids : PkClear(pid)
    \/ \E pid \in Pids : PkCarrier(pid)
    \/ \E pid \in Pids : PkInd(pid)
    \/ \E pid \in Pids, req \in StealRequests, draw \in Draws : StEnter(pid, req, draw)
    \/ \E pid \in Pids : StDefender(pid)
    \/ \E pid \in Pids : StAttacker(pid)
    \/ \E pid \in Pids : StCarrier(pid)
    \/ \E pid \in Pids : RmPop(pid)
    \/ \E f \in Teams : RmTest(f)
    \/ \E f \in Teams : RmReset(f)
    \/ ProcessInputs
    \/ UpdateFlags
    \/ CheckScore
    \/ SerializeBroadcast

SpecConc == InitConc /\ [][NextConc]_vars

\* ------------------------------------------------------------ pickups while the loop scores
\* Player 3 (red) stands in the red base with the blue flag, about to score;
\* player 2 (blue) is in pickup range of the red flag and player 1 (red) of
\* the blue flag's spawn.  The pickups run statement by statement.
ScorePositions ==
    [pid \in 1..3 |->
        CASE pid = 1 -> [x |-> 948, y |-> 299]
          [] pid = 2 -> [x |-> 52, y |-> 300]
          [] pid = 3 -> [x |-> 48, y |-> 301]]

InitScore ==
    /\ \A pid \in DOMAIN ScorePositions : Walkable(pid, ScorePositions[pid])
    /\ InitCarrying(ScorePositions, [blue |-> 3, red |-> None])

NextScore ==
    \/ \E pid \in Pids : PkStart(pid)
    \/ \E pid \in Pids : PkEnter(pid)
    \/ \E pid \in Pids : PkClear(pid)
    \/ \E pid \in Pids : PkCarrier(pid)
    \/ \E pid \in Pids : PkInd(pid)
    \/ ProcessInputs
    \/ UpdateFlags
    \/ CheckScore
    \/ SerializeBroadcast

SpecScore == InitScore /\ [][NextScore]_vars

\* ------------------------------------------------------------ every thread, lock by lock
\* accept: `with self.struct_lock:` is entered, the player is registered and
\* its listener thread started
AcRegister ==
    /\ acceptor = "accept"
    /\ next_player_id <= MaxPlayers
    /\ StructFree
    /\ struct_lock' = "accept"
    /\ Register(next_player_id)
    /\ acceptor' = "send_connect"
    /\ UNCHANGED <<flags, scores, loop_vars, intents, dropped, fine_vars, send_failed,
                   first_sent, items>>

\* send_json(client_sock, {"type": "connect", ...}); the lock is released
AcConnect ==
    /\ acceptor = "send_connect"
    /\ first_sent' = FirstSend(first_sent, {next_player_id - 1}, "connect")
    /\ struct_lock' = "free"
    /\ acceptor' = IF running THEN "accept" ELSE "exited"
    /\ UNCHANGED <<world_vars, conn_vars, loop_vars, listener, intents, dropped,
                   fine_vars, send_failed, items>>

\* world = serialize(); broadcast: with self.struct_lock: items = list(...)
BcSnapshot ==
    /\ tick = "serialize"
    /\ StructFree
    /\ items' = client_sockets
    /\ dropped' = {}
    /\ tick' = "sending"
    /\ UNCHANGED <<world_vars, conn_vars, running, over_sent, thread_vars,
                   intents, fine_vars, send_failed, struct_lock, first_sent>>

\* for pid, sock in items: send_json(sock, obj); the sleep; `while self.running`
BcSend ==
    /\ tick = "sending"
    /\ first_sent' = FirstSend(first_sent, items, "update")
    /\ items' = {}
    /\ tick' = IF running THEN "process_inputs" ELSE "stopped"
    /\ UNCHANGED <<world_vars, conn_vars, running, over_sent, thread_vars,
                   intents, dropped, fine_vars, send_failed, struct_lock>>

\* check_score up to the test of the winning score: the scoring and the resets
CsScore ==
    /\ tick = "check_score"
    /\ IF Scorers(player, players) = {}
       THEN /\ tick' = "serialize"
            /\ UNCHANGED <<player, flags, scores>>
       ELSE LET p == player[FirstScorer(player, players)]
                sc == [scores EXCEPT ![p.team] = @ + ScoreGain(p)]
            IN /\ scores' = sc
               /\ flags' = ResetFlags(flags)
               /\ player' = ResetPlayers(player, players)
               /\ tick' = IF Wins(sc, p.team) THEN "over" ELSE "serialize"
    /\ UNCHANGED <<players, conn_vars, running, over_sent, thread_vars, intents,
                   dropped, fine_vars, send_failed, sync_vars>>

\* broadcast({"type": "over", ...}): with self.struct_lock: items = list(...)
OvSnapshot ==
    /\ tick = "over"
    /\ StructFree
    /\ items' = client_sockets
    /\ tick' = "over_sending"
    /\ UNCHANGED <<world_vars, conn_vars, running, over_sent, thread_vars,
                   intents, dropped, fine_vars, send_failed, struct_lock, first_sent>>

\* for pid, sock in items: send_json(sock, obj); self.running = False; return
OvSend ==
    /\ tick = "over_sending"
    /\ first_sent' = FirstSend(first_sent, items, "over")
    /\ items' = {}
    /\ over_sent' = Append(over_sent, CHOOSE t \in Teams : Wins(scores, t))
    /\ running' = FALSE
    /\ tick' = "serialize"
    /\ UNCHANGED <<world_vars, conn_vars, thread_vars, intents, dropped,
                   fine_vars, send_failed, struct_lock>>

\* Player 1 (red) stands in the red base with the blue flag, red one point
\* short of the win; player 2 (blue) is in pickup range of the red flag.
LastPointPositions ==
    [pid \in 1..2 |->
        CASE pid = 1 -> [x |-> 48, y |-> 299]
          [] pid = 2 -> [x |-> 52, y |-> 300]]

InitLastPoint ==
    /\ \A pid \in DOMAIN LastPointPositions : Walkable(pid, LastPointPositions[pid])
    /\ InitScored(LastPointPositions, [blue |-> 1, red |-> None],
                  [blue |-> 0, red |-> SCORE_TO_WIN - 1])

InitThreads == InitEmpty \/ InitLastPoint

NextThreads ==
    \/ AcRegister
    \/ AcConnect
    \/ \E pid \in Pids : PkStart(pid)
    \/ \E pid \in Pids : PkEnter(pid)
    \/ \E pid \in Pids : PkClear(pid)
    \/ \E pid \in Pids : PkCarrier(pid)
    \/ \E pid \in Pids : PkInd(pid)
    \/ \E pid \in Pids, req \in StealRequests, draw \in Draws : StEnter(pid, req, draw)
    \/ \E pid \in Pids : StDefender(pid)
    \/ \E pid \in Pids : StAttacker(pid)
    \/ \E pid \in Pids : StCarrier(pid)
    \/ \E pid \in Pids : RmPop(pid)
    \/ \E f \in Teams : RmTest(f)
    \/ \E f \in Teams : RmReset(f)
    \/ ProcessInputs
    \/ UpdateFlags
    \/ CsScore
    \/ OvSnapshot
    \/ OvSend
    \/ BcSnapshot
    \/ BcSend

SpecThreads == InitThreads /\ [][NextThreads]_vars

\* ------------------------------------------------------------ movement at the edges of the map
\* Player 1 (red) has walked to the left edge and player 2 (blue) to the
\* right edge, near a corner; player 1 may have carried the blue flag there.
Keys == {"up", "down", "left", "right"}

EdgePositions ==
    [pid \in 1..2 |->
        CASE pid = 1 -> {[x |-> 0, y |-> 5], [x |-> 6, y |-> 599]}
          [] pid = 2 -> {[x |-> 1000, y |-> 600]}]

InitMove ==
    \E place \in [DOMAIN EdgePositions ->
                    UNION {EdgePositions[pid] : pid \in DOMAIN EdgePositions}] :
        /\ \A pid \in DOMAIN place :
              place[pid] \in EdgePositions[pid] /\ Walkable(pid, place[pid])
        /\ \E c \in {None, 1} : InitCarrying(place, [blue |-> c, red |-> None])

\* an input message with any combination of the four keys held
RecvInput(pid, move) == Enqueue(pid, [move |-> move, type |-> "input"], MaxMoves)

NextMove ==
    \/ Accept
    \/ \E pid \in Pids, move \in SUBSET Keys : RecvInput(pid, move)
    \/ ProcessInputs
    \/ UpdateFlags
    \/ CheckScore
    \/ SerializeBroadcast

SpecMove == InitMove /\ [][NextMove]_vars

\* ------------------------------------------------------------ broadcast with failing sends
\* The game with connections whose socket no longer takes a send.
NextBroadcast ==
    \/ \E pid \in Pids : RecvPickup(pid)
    \/ \E pid \in Pids : RecvFailed(pid)
    \/ ProcessInputs
    \/ UpdateFlags
    \/ CheckScore
    \/ \E failing \in SUBSET client_sockets : BroadcastWorld(failing)
    \/ \E pid \in Pids : RemovePlayer(pid)

SpecBroadcast == InitMidGame /\ [][NextBroadcast]_vars

\* ------------------------------------------------------------ claims
Present(pid) == pid \in players

PickedUp(pid, f) ==
    /\ flags[f].carrier # pid
    /\ flags'[f].carrier = pid
    /\ Indicator(player'[pid], f)

\* C1: every flag's carrier is empty or a player present in the world whose
\* team is the opposite of the flag's team.
C1_CarrierPresentOpposing ==
    \A f \in Teams :
        flags[f].carrier # None =>
            /\ Present(flags[f].carrier)
            /\ player[flags[f].carrier].team # f

\* C2: a present player has the indicator for flag f set iff f.carrier is that
\* player.
C2_IndicatorsAgree ==
    \A pid \in players, f \in Teams :
        Indicator(player[pid], f) <=> flags[f].carrier = pid

\* C4: a pickup request by a present player makes it the carrier of the
\* opposing flag iff that flag is uncarried and within PICKUP_RADIUS (boundary
\* included); it never makes it the carrier of its own team's flag.
C4_PickupIff ==
    \A pid \in players :
        listener[pid] = "recv" =>
            /\ (ENABLED (RecvPickup(pid) /\ PickedUp(pid, Opposing(TeamOf(pid)))))
                 <=> /\ flags[Opposing(TeamOf(pid))].carrier = None
                     /\ Dist2(player[pid].x, player[pid].y,
                              flags[Opposing(TeamOf(pid))].x,
                              flags[Opposing(TeamOf(pid))].y) <= 900
            /\ ~ENABLED (RecvPickup(pid) /\ PickedUp(pid, TeamOf(pid)))

\* a player exactly on the pickup boundary has taken the flag
C4_Witness ==
    \E pid \in players :
        /\ flags[Opposing(TeamOf(pid))].carrier = pid
        /\ player[pid].blue # player[pid].red
        /\ flags[Opposing(TeamOf(pid))].x = FlagSpawn(Opposing(TeamOf(pid))).x
        /\ Dist2(player[pid].x, player[pid].y,
                 FlagSpawn(Opposing(TeamOf(pid))).x,
                 FlagSpawn(Opposing(TeamOf(pid))).y) = 900

\* the requester passed the tests of attempt_pickup and holds the flag's lock
Accepted(pid) == listener[pid] \in {"pk_clear", "pk_carrier", "pk_ind"}

\* C3: of the listeners running attempt_pickup for the same flag at most one
\* is accepted at a time, it assigns a carrier that is still empty, and a
\* rejected request changes neither players nor flags.
C3_OnePickupWins ==
    /\ [](\A f \in Teams :
            Cardinality({pid \in Pids : Accepted(pid) /\ Wanted(pid) = f}) <= 1)
    /\ [][\A pid \in Pids :
            (listener[pid] = "pk_carrier" /\ listener'[pid] = "pk_ind") =>
                /\ flags[Wanted(pid)].carrier = None
                /\ flags'[Wanted(pid)].carrier = pid]_vars
    /\ [][\A pid \in Pids :
            (listener[pid] = "pk_lock" /\ listener'[pid] = "recv") =>
                player' = player /\ flags' = flags]_vars

\* player 1 was accepted for the blue flag while player 3 waits for it
C3_Witness ==
    /\ listener[1] = "pk_carrier"
    /\ listener[3] = "pk_lock"
    /\ Wanted(1) = Wanted(3)
    /\ flags[Wanted(1)].carrier = None

Stolen(attacker, defender, f) ==
    /\ Indicator(player[defender], f)
    /\ ~Indicator(player'[defender], f)
    /\ Indicator(player'[attacker], f)
    /\ flags'[f].carrier = attacker

\* C5: a steal request succeeds iff the defender carries the named flag, the
\* teams differ, the attacker is within the proximity radius of the defender
\* and the draw is below STEAL_CHANCE.
C5_StealIff ==
    \A attacker \in Pids, defender \in Pids, f \in Teams, draw \in Draws :
        listener[attacker] = "recv" =>
            ((ENABLED (RecvSteal(attacker, defender, f, draw)
                          /\ Stolen(attacker, defender, f)))
              <=> /\ Present(attacker)
                  /\ Present(defender)
                  /\ Indicator(player[defender], f)
                  /\ TeamOf(attacker) # TeamOf(defender)
                  /\ Dist2(player[attacker].x, player[attacker].y,
                           player[defender].x, player[defender].y) <= 900
                  /\ draw < 35)

\* opposing flags the player's indicators say it carries
Carrying(pid) == {f \in Teams : f # TeamOf(pid) /\ Indicator(player[pid], f)}

AtOwnBase(pid) ==
    Dist2(player[pid].x, player[pid].y,
          FlagSpawn(TeamOf(pid)).x, FlagSpawn(TeamOf(pid)).y) <= 2500

\* C6: when check_score finds a player carrying N opposing flags inside its
\* own base, that team's score grows by exactly N in that step, every flag is
\* uncarried at its spawn and every player's indicators are cleared; with no
\* such player the scores do not change.
C6_ScoreStep ==
    [][(tick = "check_score" /\ tick' # tick) =>
        IF \E pid \in players : Carrying(pid) # {} /\ AtOwnBase(pid)
        THEN /\ \E pid \in players :
                  /\ Carrying(pid) # {} /\ AtOwnBase(pid)
                  /\ scores' = [scores EXCEPT ![TeamOf(pid)] =
                                    @ + Cardinality(Carrying(pid))]
             /\ \A f \in Teams :
                  /\ flags'[f].carrier = None
                  /\ flags'[f].x = FlagSpawn(f).x
                  /\ flags'[f].y = FlagSpawn(f).y
             /\ \A pid \in players : ~player'[pid].red /\ ~player'[pid].blue
        ELSE scores' = scores]_vars

\* check_score has just scored a capture for red
C6_Witness ==
    /\ tick = "serialize"
    /\ scores["red"] = 1
    /\ \A f \in Teams : flags[f].carrier = None
    /\ \A pid \in players : ~player[pid].red /\ ~player[pid].blue

Won == \E t \in Teams : scores[t] >= 5

\* C7: once a score reaches SCORE_TO_WIN, 'over' naming that team has been
\* broadcast exactly once, the loop runs no further process_inputs,
\* update_flags or check_score, and no score changes afterwards.
C7_WinIsTerminal ==
    /\ [](Won => /\ \E t \in Teams : scores[t] >= 5 /\ over_sent = <<t>>
                 /\ ~running
                 /\ tick \in {"serialize", "stopped"})
    /\ [](~Won => over_sent = <<>>)
    /\ [][Won => scores' = scores /\ over_sent' = over_sent]_vars

C7_Witness == scores["red"] = 5 /\ tick = "stopped" /\ over_sent = <<"red">>

\* C8: after the win (running is false) no message changes a player's
\* position or indicators or a flag's carrier or position, and no player is
\* added (removals aside).
C8_NoMutationAfterWin ==
    [][~running =>
        /\ players' \subseteq players
        /\ players' = players => player' = player /\ flags' = flags]_vars

\* C10: the snapshot serialized next after remove_player(p) shows no flag
\* carried by p, and the flags p carried at their spawn unless taken again.
C10_ReleasedInNextSnapshot ==
    tick = "serialize" =>
        \A d \in dropped :
            /\ world.flags[d[2]].carrier # d[1]
            /\ world.flags[d[2]].carrier = None =>
                  /\ world.flags[d[2]].x = FlagSpawn(d[2]).x
                  /\ world.flags[d[2]].y = FlagSpawn(d[2]).y

RemovedPlayers == (1..(next_player_id - 1)) \ players

Quiet ==
    /\ remover.pc = "idle"
    /\ \A pid \in Pids : listener[pid] \in {"none", "recv", "exited", "crashed"}

\* C9: whichever way remove_player interleaves with pickups and steals, once
\* they have all returned no flag's carrier is a removed player and no
\* remaining player has its indicator set for an uncarried flag.
C9_RemoveIsAtomic ==
    Quiet =>
        /\ \A f \in Teams : flags[f].carrier \notin RemovedPlayers
        /\ \A pid \in players, f \in Teams :
              Indicator(player[pid], f) => flags[f].carrier # None

\* the connection's disconnect notice is waiting in its intent queue
Disconnecting(pid) ==
    /\ pid \in DOMAIN input_queues
    /\ \E i \in 1..Len(input_queues[pid]) : input_queues[pid][i].type = "disconnect"

\* C11: after a read failure on a connection (its listener has left the loop
\* and queued the notice), the tick that consumes the notice removes the
\* connection and its player from client_sockets, input_queues and players
\* and leaves no flag carried by that player.
C11_ReadFailureRemoves ==
    [][(tick = "process_inputs" /\ tick' # tick) =>
        \A pid \in players :
            (listener[pid] = "exited" /\ Disconnecting(pid)) =>
                /\ pid \notin players'
                /\ pid \notin client_sockets'
                /\ pid \notin DOMAIN input_queues'
                /\ \A f \in Teams : flags'[f].carrier # pid]_vars

\* C13: a malformed line on a healthy connection leaves its listener in the
\* receive loop, ready for the next message.
C13_MalformedIsDiscarded ==
    \A pid \in Pids :
        (listener[pid] = "recv" /\ running) =>
            ~ENABLED (RecvMalformed(pid) /\ listener'[pid] # "recv")

\* C12: a send that fails during a broadcast removes that connection, and
\* the broadcast removes no connection whose send succeeded.
C12_SendFailureRemoves ==
    [][(tick = "serialize" /\ tick' # tick) =>
        /\ \A pid \in send_failed' :
              pid \notin client_sockets' /\ pid \notin players'
        /\ client_sockets \ client_sockets' \subseteq send_failed'
        /\ players \ players' \subseteq send_failed']_vars

\* C14: every player in the world stands within [0, MAP_WIDTH] x
\* [0, MAP_HEIGHT], and so does every flag.
C14_PositionsInBounds ==
    /\ \A pid \in players :
          /\ 0 <= player[pid].x /\ player[pid].x <= MAP_WIDTH
          /\ 0 <= player[pid].y /\ player[pid].y <= MAP_HEIGHT
    /\ \A f \in Teams :
          /\ 0 <= flags[f].x /\ flags[f].x <= MAP_WIDTH
          /\ 0 <= flags[f].y /\ flags[f].y <= MAP_HEIGHT

\* player 1, five units from the top edge, was stopped at it, and the flag
\* it carries followed
C14_Witness ==
    /\ player[1].y = 0
    /\ flags["blue"].carrier = 1
    /\ flags["blue"].y = 0

\* C15: in one tick (one process_inputs) a player moves by at most one step
\* of 6 on each axis, however many intents its queue holds.
C15_OneStepPerTick ==
    [][(tick = "process_inputs" /\ tick' # tick) =>
        \A pid \in players :
            /\ player'[pid].x - player[pid].x \in -6..6
            /\ player'[pid].y - player[pid].y \in -6..6]_vars

InBounds(v, hi) == IF v < 0 THEN 0 ELSE IF v > hi THEN hi ELSE v

\* the step on one axis for the two keys of that axis
AxisStep(back, forth) ==
    IF back /\ forth THEN 0 ELSE IF back THEN -6 ELSE IF forth THEN 6 ELSE 0

\* C16: one movement intent moves each axis on its own: up with down leaves y
\* unchanged, left with right leaves x unchanged, otherwise the axis moves one
\* step of 6 in the direction held and is then clamped.
C16_AxesCancel ==
    [][(tick = "process_inputs" /\ tick' # tick) =>
        \A pid \in players \cap DOMAIN input_queues :
            (Len(input_queues[pid]) = 1 /\ input_queues[pid][1].type = "input") =>
                LET m == input_queues[pid][1].move IN
                    /\ ({"up", "down"} \subseteq m) => player'[pid].y = player[pid].y
                    /\ ({"left", "right"} \subseteq m) => player'[pid].x = player[pid].x
                    /\ player'[pid].y =
                          InBounds(player[pid].y + AxisStep("up" \in m, "down" \in m), 600)
                    /\ player'[pid].x =
                          InBounds(player[pid].x + AxisStep("left" \in m, "right" \in m), 1000)
       ]_vars

\* one intent of player 1 was applied: one step up from the bottom edge, no
\* step sideways
C16_Witness ==
    /\ tick = "update_flags"
    /\ intents = 1
    /\ player[1].x = 6
    /\ player[1].y = 593

\* C17: remove_player(pid) leaves pid in none of players, client_sockets,
\* input_queues and client_threads, and a call for a pid already removed or
\* never assigned changes nothing in the world or the connection tables.
C17_RemoveIsIdempotent ==
    \A pid \in Pids :
        /\ ~ENABLED (/\ RemovePlayer(pid)
                     /\ \/ pid \in players'
                        \/ pid \in client_sockets'
                        \/ pid \in DOMAIN input_queues'
                        \/ pid \in client_threads')
        /\ (pid \in RemovedPlayers \/ pid >= next_player_id) =>
              ~ENABLED (/\ RemovePlayer(pid)
                        /\ <<world_vars, conn_vars>>' # <<world_vars, conn_vars>>)

\* a player was removed while it carried a flag, and the flag was released
C17_Witness ==
    /\ RemovedPlayers # {}
    /\ dropped # {}
    /\ \A d \in dropped : d[1] \in RemovedPlayers /\ flags[d[2]].carrier = None

\* C18: accept hands out next_player_id and increases it by one, so a new
\* player's id is above every id handed out before, removed ones included;
\* odd ids are on team red and even ids on team blue.
C18_IdsIncreaseTeamsAlternate ==
    /\ [](\A pid \in players :
            /\ pid < next_player_id
            /\ player[pid].team = (IF pid % 2 = 1 THEN "red" ELSE "blue"))
    /\ [][/\ next_player_id' >= next_player_id
          /\ \A pid \in players' \ players :
                pid = next_player_id /\ next_player_id' = pid + 1]_vars

\* player 1 was accepted and removed, and player 2 got the next id
C18_Witness ==
    /\ next_player_id = 3
    /\ players = {2}
    /\ player[2].team = "blue"

\* an input message of the connection is still waiting in its queue
QueuedInput(pid) ==
    /\ pid \in DOMAIN input_queues
    /\ \E i \in 1..Len(input_queues[pid]) : input_queues[pid][i].type = "input"

\* C19: a connection's messages take effect in arrival order: when its
\* pickup or steal takes effect, no input message it sent earlier is still
\* waiting to be applied.
C19_ArrivalOrder ==
    [][\A pid \in Pids, f \in Teams : PickedUp(pid, f) => ~QueuedInput(pid)]_vars

\* C20: a successful pickup or steal of one flag leaves the acting player's
\* indicator for the other flag as it was.
C20_OtherIndicatorKept ==
    [][\A pid \in Pids, f \in Teams :
          PickedUp(pid, f) =>
              Indicator(player'[pid], Opposing(f)) = Indicator(player[pid], Opposing(f))]_vars

\* the world or the connection tables differ after the step
WorldChanged == <<world_vars, conn_vars>>' # <<world_vars, conn_vars>>

C22_ScoresBounded ==
    /\ [](\A t \in Teams : scores[t] \in 0..5)
    /\ [][\A t \in Teams : scores'[t] >= scores[t]]_vars
    /\ [][(\E t \in Teams : scores[t] >= 5) => scores' = scores]_vars

\* red has just scored its fifth point
C22_Witness == scores["red"] = 5 /\ tick = "serialize" /\ ~running

\* C23: a steal naming an unknown flag or an absent defender, and a steal, a
\* pickup or a queued message from a player no longer in the world, changes
\* nothing in the world or the connection tables and leaves the sender's
\* listener in its receive loop.
C23_UnknownReferenceIgnored ==
    \A pid \in Pids :
        (listener[pid] = "recv" /\ running) =>
            /\ \A req \in StealRequests, draw \in Draws :
                  (\/ pid \notin players
                   \/ req.target \notin players
                   \/ req.flag \notin {"red", "blue"}) =>
                      ~ENABLED (/\ RecvSteal(pid, req.target, req.flag, draw)
                                /\ (WorldChanged \/ listener'[pid] # "recv"))
            /\ pid \notin players =>
                  /\ ~ENABLED (/\ RecvPickup(pid)
                               /\ (WorldChanged \/ listener'[pid] # "recv"))
                  /\ \A msg \in Messages :
                        ~ENABLED (/\ RecvQueued(pid, msg)
                                  /\ (WorldChanged \/ listener'[pid] # "recv"))

\* a player was removed while carrying a flag and its listener still reads
C23_Witness ==
    /\ running
    /\ \E pid \in RemovedPlayers :
          /\ listener[pid] = "recv"
          /\ player[pid].red \/ player[pid].blue
    /\ \E pid \in players : listener[pid] = "recv"

\* C25: in the snapshot a tick broadcasts, a flag with a carrier names a
\* player of that snapshot and lies at that player's position (so a flag
\* whose carrier has left the world shows no carrier).
C25_SnapshotFlagsFollowCarriers ==
    tick = "serialize" =>
        \A f \in DOMAIN world.flags :
            world.flags[f].carrier # None =>
                /\ world.flags[f].carrier \in DOMAIN world.players
                /\ world.flags[f].x = world.players[world.flags[f].carrier].x
                /\ world.flags[f].y = world.players[world.flags[f].carrier].y

\* C26: with the handlers atomic, a player in the world with its indicator
\* for flag f set is f's carrier, so at most one player has that indicator.
C26_IndicatorImpliesCarrier ==
    /\ \A pid \in players, f \in Teams :
          Indicator(player[pid], f) => flags[f].carrier = pid
    /\ \A f \in Teams :
          Cardinality({pid \in players : Indicator(player[pid], f)}) <= 1

\* after a steal player 2 holds the blue indicator as blue's carrier, while
\* it is still the carrier of red without the red indicator
C26_Witness ==
    /\ 2 \in players
    /\ player[2].blue /\ flags["blue"].carrier = 2
    /\ ~player[2].red /\ flags["red"].carrier = 2

\* C28: after 'over' the loop only finishes its tick: it broadcasts one more
\* snapshot, showing the winning score, every flag uncarried at its spawn and
\* no indicator set, and then stops for good.
C28_FinalSnapshot ==
    /\ [](over_sent # <<>> => tick \in {"serialize", "stopped"})
    /\ [][tick = "stopped" => tick' = "stopped"]_vars
    /\ []((tick = "serialize" /\ ~running) =>
            /\ \E t \in Teams : world.scores[t] >= 5
            /\ \A f \in DOMAIN world.flags :
                  /\ world.flags[f].carrier = None
                  /\ world.flags[f].x = FlagSpawn(f).x
                  /\ world.flags[f].y = FlagSpawn(f).y
            /\ \A pid \in DOMAIN world.players :
                  ~world.players[pid].red /\ ~world.players[pid].blue)

\* C24: however a score reset interleaves with a pickup, once the pickup has
\* returned no player has its indicator set for a flag without carrier, and
\* no flag has a carrier whose indicator for it is cleared.
C24_ScoreStepIsAtomic ==
    Quiet =>
        /\ \A pid \in players, f \in Teams :
              Indicator(player[pid], f) => flags[f].carrier # None
        /\ \A f \in Teams :
              flags[f].carrier # None => Indicator(player[flags[f].carrier], f)

\* C27: on every connection the first message sent is 'connect': no 'update'
\* and no 'over' reaches a connection before it.
C27_ConnectIsFirst ==
    \A pid \in Pids : first_sent[pid] \in {"none", "connect"}

\* accept has registered a player and not yet sent its 'connect' while the
\* loop is sending 'over' to the sockets it listed before
C27_Witness ==
    /\ acceptor = "send_connect"
    /\ tick = "over_sending"
    /\ items # {}
    /\ first_sent[next_player_id - 1] = "none"

\* the flag locks a listener holds
HeldBy(pid) == {f \in Teams : lock[f] = pid}

\* C29: no listener holds two flag locks, the holder of a flag lock or of
\* struct_lock holds no other lock, and each holder can take its next step
\* (towards the release) without waiting for another lock.
C29_NoNestedLocks ==
    /\ \A pid \in Pids : Cardinality(HeldBy(pid)) <= 1
    /\ \A f \in Teams :
          lock[f] # None =>
              /\ listener[lock[f]] \in {"pk_clear", "pk_carrier", "pk_ind",
                                         "st_defender", "st_attacker", "st_carrier"}
              /\ ENABLED (\/ PkClear(lock[f]) \/ PkCarrier(lock[f]) \/ PkInd(lock[f])
                          \/ StDefender(lock[f]) \/ StAttacker(lock[f])
                          \/ StCarrier(lock[f]))
    /\ struct_lock # "free" =>
          /\ struct_lock = "accept"
          /\ acceptor = "send_connect"
          /\ ENABLED AcConnect

\* both flag locks and struct_lock are held at once, by three threads
C29_Witness ==
    /\ lock["red"] # None
    /\ lock["blue"] # None
    /\ lock["red"] # lock["blue"]
    /\ struct_lock = "accept"

====
